---- MODULE Spec2Model ----
(***************************************************************************)
(* Model of the two diagnostic scripts test_visualization_fix.py and       *)
(* debug_sparql.py: the SPARQL-bindings-to-graph converter with its URI    *)
(* heuristics, the sequential checks of main, and test_real_data.          *)
(*                                                                         *)
(* Python strings are sequences of one-character strings, so that lower(), *)
(* `in`, startswith, replace, split and slicing are computed as the code   *)
(* computes them.                                                          *)
(***************************************************************************)
EXTENDS Integers, Sequences, FiniteSets, TLC

VARIABLES pc, bindings, i, nodes, links, graph_data,
          static_resp, static_ok, sparql_ok, sparql_data, conversion_ok, ret, log,
          resp, uri, ntype, ngroup

vars == <<pc, bindings, i, nodes, links, graph_data,
          static_resp, static_ok, sparql_ok, sparql_data, conversion_ok, ret, log,
          resp, uri, ntype, ngroup>>

(***************************************************************************)
(* Bounds                                                                  *)
(***************************************************************************)
\* longest binding list handed to convert_sparql_to_graph
MaxLen == 2
\* longest bindings array in an HTTP response body
MaxRows == 2
\* most keyword fragments concatenated into a URI for the classifiers
MaxWords == 3

(***************************************************************************)
(* String literals of the source                                           *)
(***************************************************************************)
S_ex_resource1 == <<"e", "x", ":", "r", "e", "s", "o", "u", "r", "c", "e", "1">>
S_ex_hasType == <<"e", "x", ":", "h", "a", "s", "T", "y", "p", "e">>
S_ex_Product == <<"e", "x", ":", "P", "r", "o", "d", "u", "c", "t">>
S_EventTypeUri == <<"h", "t", "t", "p", ":", "/", "/", "e", "x", "a", "m", "p", "l", "e", ".", "o", "r", "g", "/", "e", "p", "c", "i", "s", "#", "E", "v", "e", "n", "t", "T", "y", "p", "e">>
S_base == <<"h", "t", "t", "p", ":", "/", "/", "e", "x", "a", "m", "p", "l", "e", ".", "o", "r", "g", "/", "e", "p", "c", "i", "s", "#">>
S_cbvLoc == <<"u", "r", "n", ":", "c", "b", "v", "#", "l", "o", "c">>
S_urnP == <<"u", "r", "n", ":", "p">>
S_product == <<"p", "r", "o", "d", "u", "c", "t">>
S_location == <<"l", "o", "c", "a", "t", "i", "o", "n">>
S_event == <<"e", "v", "e", "n", "t">>
S_business == <<"b", "u", "s", "i", "n", "e", "s", "s">>
S_type == <<"t", "y", "p", "e">>
S_has == <<"h", "a", "s">>
S_epcis == <<"e", "p", "c", "i", "s">>
S_cbv == <<"c", "b", "v">>
S_ex == <<"e", "x", ":">>
S_exresource == <<"e", "x", ":", "r", "e", "s", "o", "u", "r", "c", "e">>
S_value == <<"v", "a", "l", "u", "e">>
S_resource == <<"r", "e", "s", "o", "u", "r", "c", "e">>
S_Resource_ == <<"R", "e", "s", "o", "u", "r", "c", "e", " ">>
S_dots == <<".", ".", ".">>
W_Product == <<"P", "r", "o", "d", "u", "c", "t">>
W_LOCATION == <<"L", "O", "C", "A", "T", "I", "O", "N">>
W_Event == <<"E", "v", "e", "n", "t">>
W_Type == <<"T", "y", "p", "e">>

(***************************************************************************)
(* Python str operations                                                   *)
(***************************************************************************)
UpperChars == <<"A", "B", "C", "D", "E", "F", "G", "H", "I", "J", "K", "L", "M",
                "N", "O", "P", "Q", "R", "S", "T", "U", "V", "W", "X", "Y", "Z">>
LowerChars == <<"a", "b", "c", "d", "e", "f", "g", "h", "i", "j", "k", "l", "m",
                "n", "o", "p", "q", "r", "s", "t", "u", "v", "w", "x", "y", "z">>

\* str.lower() on one character
LowerChar(c) ==
    IF \E k \in 1..26 : UpperChars[k] = c
    THEN LowerChars[CHOOSE k \in 1..26 : UpperChars[k] = c]
    ELSE c

\* str.lower()
Lower(s) == [k \in 1..Len(s) |-> LowerChar(s[k])]

\* s[a:] for a 0-based offset a <= len(s)
From(s, a) == SubSeq(s, a + 1, Len(s))

\* s[:n]
Prefix(s, n) == IF Len(s) > n THEN SubSeq(s, 1, n) ELSE s

\* s.startswith(p)
StartsWith(s, p) == Len(p) <= Len(s) /\ SubSeq(s, 1, Len(p)) = p

\* sub in s
Contains(s, sub) ==
    \E a \in 0..(Len(s) - Len(sub)) : SubSeq(s, a + 1, a + Len(sub)) = sub

\* s.replace(old, new): every non-overlapping occurrence, left to right
RECURSIVE Replace(_, _, _)
Replace(s, old, new) ==
    IF Len(s) < Len(old) THEN s
    ELSE IF StartsWith(s, old) THEN new \o Replace(From(s, Len(old)), old, new)
    ELSE <<s[1]>> \o Replace(From(s, 1), old, new)

\* s.split(ch)[-1]: what follows the last occurrence of the character ch
SplitLast(s, ch) ==
    IF \E k \in 1..Len(s) : s[k] = ch
    THEN LET last == CHOOSE k \in 1..Len(s) :
                         s[k] = ch /\ \A m \in (k + 1)..Len(s) : s[m] # ch
         IN  From(s, last)
    ELSE s

(***************************************************************************)
(* The URI heuristics of test_visualization_fix.py                         *)
(***************************************************************************)
get_node_name(u) ==
    IF StartsWith(u, S_ex)
    THEN Replace(Replace(u, S_ex, <<>>), S_resource, S_Resource_)
    ELSE IF Contains(u, <<"#">>) THEN SplitLast(u, "#")
    ELSE IF Contains(u, <<"/">>) THEN SplitLast(u, "/")
    ELSE IF Len(u) > 30 THEN Prefix(u, 30) \o S_dots ELSE u

\* the keyword tests in another order: location and event before product
get_node_type_Reordered(u) ==
    LET uri_lower == Lower(u) IN
    IF Contains(uri_lower, S_event) THEN "event"
    ELSE IF Contains(uri_lower, S_location) THEN "location"
    ELSE IF Contains(uri_lower, S_product) THEN "product"
    ELSE IF Contains(uri_lower, S_business) THEN "business"
    ELSE "resource"

get_node_type(u) ==
    LET uri_lower == Lower(u) IN
    IF Contains(uri_lower, S_product) THEN "product"
    ELSE IF Contains(uri_lower, S_location) THEN "location"
    ELSE IF Contains(uri_lower, S_event) THEN "event"
    ELSE IF Contains(uri_lower, S_business) THEN "business"
    ELSE "resource"

\* the dict `groups` of get_node_group, and its .get(node_type, 0)
groups == [product |-> 1, location |-> 2, event |-> 3, business |-> 4]

get_node_group(u) ==
    LET node_type == get_node_type(u) IN
    IF node_type \in DOMAIN groups THEN groups[node_type] ELSE 0

\* "has" tested before "type"
get_edge_type_HasFirst(predicate) ==
    LET predicate_lower == Lower(predicate) IN
    IF Contains(predicate_lower, S_has) THEN "has"
    ELSE IF Contains(predicate_lower, S_type) THEN "type"
    ELSE "relationship"

get_edge_type(predicate) ==
    LET predicate_lower == Lower(predicate) IN
    IF Contains(predicate_lower, S_type) THEN "type"
    ELSE IF Contains(predicate_lower, S_has) THEN "has"
    ELSE "relationship"

get_edge_label(predicate) ==
    IF Contains(predicate, <<"#">>) THEN SplitLast(predicate, "#")
    ELSE IF Len(predicate) > 20 THEN Prefix(predicate, 20) \o S_dots
    ELSE predicate

(***************************************************************************)
(* Bindings.  A field is what binding.get(f, {}).get('value') works on:    *)
(*   "none"    the key f, or its 'value', is absent: the expression is None *)
(*   "str"     a string value v (possibly empty)                           *)
(*   "int"     a truthy value that is not a string (a JSON number)         *)
(*   "nondict" binding[f] is not an object, so .get raises AttributeError  *)
(* dict = FALSE is a row that is not an object at all.                     *)
(***************************************************************************)
FNone == [k |-> "none", v |-> <<>>]
FStr(s) == [k |-> "str", v |-> s]
FInt == [k |-> "int", v |-> <<>>]
FNonDict == [k |-> "nondict", v |-> <<>>]

Row(s, p, o) == [dict |-> TRUE, s |-> s, p |-> p, o |-> o]

\* truthiness as if tested with `is not None`
Truthy_NotNone(f) == f.k # "none"

\* Python truthiness of the value, as tested by line 61
Truthy(f) == (f.k = "str" /\ f.v # <<>>) \/ f.k = "int"

(***************************************************************************)
(* The dict `nodes`: a sequence of [key, val] entries in insertion order   *)
(***************************************************************************)
Keys(ns) == {ns[k].key : k \in 1..Len(ns)}

\* nodes[key] = val
DictSet(ns, key, val) ==
    IF key \in Keys(ns)
    THEN [k \in 1..Len(ns) |-> IF ns[k].key = key
                               THEN [key |-> key, val |-> val] ELSE ns[k]]
    ELSE Append(ns, [key |-> key, val |-> val])

\* list(nodes.values())
Values(ns) == [k \in 1..Len(ns) |-> ns[k].val]

\* the node literal of lines 64-69 and 73-78
MakeNode(u) ==
    [id |-> u, name |-> get_node_name(u),
     type |-> get_node_type(u), group |-> get_node_group(u)]

\* nodes kept in a list: an entry appended at every sight
AddNode_Append(ns, u) == Append(ns, [key |-> u, val |-> MakeNode(u)])

\* a URI seen again is overwritten by an unclassified placeholder
AddNode_Overwrite(ns, u) ==
    IF u \in Keys(ns)
    THEN DictSet(ns, u, [id |-> u, name |-> u, type |-> "resource", group |-> 0])
    ELSE DictSet(ns, u, MakeNode(u))

\* if uri not in nodes: nodes[uri] = {...}
AddNode(ns, u) == IF u \notin Keys(ns) THEN DictSet(ns, u, MakeNode(u)) ELSE ns

\* the link literal of lines 81-86
MakeLink(subject, predicate, object) ==
    [source |-> subject, target |-> object,
     type |-> get_edge_type(predicate), label |-> get_edge_label(predicate)]

\* a link equal to an earlier one is not appended again
AppendLink_Dedup(ls, l) ==
    IF \E k \in 1..Len(ls) : ls[k] = l THEN ls ELSE Append(ls, l)

\* links.append(...)
AppendLink(ls, l) == Append(ls, l)

\* the iteration raises: .get on a non-object (lines 57-59), or a str method
\* called on a non-string value (get_node_name, get_edge_type)
Raises(b) ==
    \/ ~b.dict
    \/ b.s.k = "nondict" \/ b.p.k = "nondict" \/ b.o.k = "nondict"
    \/ /\ Truthy(b.s) /\ Truthy(b.p) /\ Truthy(b.o)
       /\ (b.s.k = "int" \/ b.p.k = "int" \/ b.o.k = "int")

\* one iteration of the for loop of convert_sparql_to_graph
LoopBody(st, b) ==
    IF Raises(b) THEN [st EXCEPT !.raised = TRUE]
    ELSE IF Truthy(b.s) /\ Truthy(b.p) /\ Truthy(b.o)
    THEN [st EXCEPT !.nodes = AddNode(AddNode(st.nodes, b.s.v), b.o.v),
                    !.links = AppendLink(st.links, MakeLink(b.s.v, b.p.v, b.o.v))]
    ELSE st

RECURSIVE ForLoop(_, _)
ForLoop(st, bs) ==
    IF bs = <<>> \/ st.raised THEN st
    ELSE ForLoop(LoopBody(st, Head(bs)), Tail(bs))

\* convert_sparql_to_graph(bindings): the returned dict, or raised = TRUE
convert_sparql_to_graph(bs) ==
    LET st == ForLoop([nodes |-> <<>>, links |-> <<>>, raised |-> FALSE], bs)
    IN  [nodes |-> Values(st.nodes), links |-> st.links, raised |-> st.raised]

(***************************************************************************)
(* HTTP.  A request either raises (kind "exc") or returns a status and a   *)
(* body.  A body is not JSON, or JSON without results.bindings, or JSON    *)
(* with a bindings array.                                                  *)
(***************************************************************************)
Statuses == {200, 404, 500}

RowPool ==
    { Row(FStr(S_EventTypeUri), FStr(S_cbvLoc), FStr(S_ex_Product)),
      Row(FStr(S_ex_resource1), FStr(S_cbvLoc), FNone),
      Row(FStr(S_ex_Product), FStr(S_urnP), FStr(<<>>)),
      Row(FInt, FStr(S_urnP), FStr(S_ex_Product)),
      [dict |-> FALSE, s |-> FNone, p |-> FNone, o |-> FNone] }

RowLists == UNION {[1..n -> RowPool] : n \in 0..MaxRows}

NotJson == [kind |-> "notjson", bindings |-> <<>>]
NoResults == [kind |-> "noresults", bindings |-> <<>>]
Json(bs) == [kind |-> "json", bindings |-> bs]

Bodies == {NotJson, NoResults} \cup {Json(bs) : bs \in RowLists}

Exc == [kind |-> "exc", status |-> 0, body |-> NotJson]

Responses == {Exc} \cup {[kind |-> "http", status |-> st, body |-> b] :
                            st \in Statuses, b \in Bodies}

StaticResponses == {Exc} \cup {[kind |-> "http", status |-> st, body |-> NotJson] :
                                  st \in Statuses}

\* Python None
None == [kind |-> "None", bindings |-> <<>>]

\* Python True and False
PyTrue == "True"
PyFalse == "False"

(***************************************************************************)
(* A name that is not bound yet, for each type of value                    *)
(***************************************************************************)
Unbound == "unbound"
UnboundData == [kind |-> "unbound", bindings |-> <<>>]
UnboundResponse == [kind |-> "unbound", status |-> 0, body |-> NotJson]
UnboundGraph == [nodes |-> <<>>, links |-> <<>>]

\* test_sparql_api(): the parsed body, or None
test_sparql_api(r) ==
    IF r.kind = "exc" THEN None
    ELSE IF r.status = 200
         THEN IF r.body.kind = "json" THEN r.body ELSE None
         ELSE None

\* test_static_files(): True or False
test_static_files(r) ==
    IF r.kind = "exc" THEN PyFalse
    ELSE IF r.status = 200 THEN PyTrue ELSE PyFalse

(***************************************************************************)
(* Classifier specification: get_node_type and get_node_group applied to   *)
(* URIs built from keyword fragments in every order and letter case.       *)
(***************************************************************************)
Words == {W_Product, W_LOCATION, W_Event, S_business, W_Type}

RECURSIVE Join(_)
Join(ws) == IF ws = <<>> THEN <<>> ELSE Head(ws) \o Join(Tail(ws))

WordLists == UNION {[1..n -> Words] : n \in 0..MaxWords}

Uris == {S_base \o Join(ws) : ws \in WordLists} \cup {Join(ws) : ws \in WordLists}

InitFn ==
    /\ pc = "classify"
    /\ uri \in Uris
    /\ ntype = Unbound
    /\ ngroup = -1
    /\ bindings = <<>> /\ i = 0 /\ nodes = <<>> /\ links = <<>>
    /\ graph_data = UnboundGraph
    /\ static_resp = UnboundResponse /\ static_ok = Unbound
    /\ sparql_ok = UnboundData /\ sparql_data = UnboundData
    /\ conversion_ok = Unbound
    /\ ret = Unbound /\ log = <<>> /\ resp = UnboundResponse

\* the 'type' and 'group' entries of a node, lines 67-68 and 76-77
Classify ==
    /\ pc = "classify"
    /\ ntype' = get_node_type(uri)
    /\ ngroup' = get_node_group(uri)
    /\ pc' = "classified"
    /\ UNCHANGED <<uri, bindings, i, nodes, links, graph_data, static_resp,
                   static_ok, sparql_ok, sparql_data, conversion_ok, ret, log, resp>>

NextFn == Classify

SpecFn == InitFn /\ [][NextFn]_vars

(***************************************************************************)
(* Converter specification: convert_sparql_to_graph run iteration by       *)
(* iteration on every list of at most MaxLen bindings.                     *)
(***************************************************************************)
SVals == {FStr(<<>>), FStr(S_ex_resource1), FStr(S_ex_Product)}
PVals == {FNone, FStr(<<>>), FStr(S_ex_hasType), FStr(S_cbvLoc)}
OVals == {FNone, FStr(<<>>), FStr(S_ex_resource1), FStr(S_ex_Product)}

Bindings == {Row(s, p, o) : s \in SVals, p \in PVals, o \in OVals}

BindingLists == UNION {[1..n -> Bindings] : n \in 0..MaxLen}

InitConv ==
    /\ pc = "loop"
    /\ bindings \in BindingLists
    /\ i = 1
    /\ nodes = <<>>
    /\ links = <<>>
    /\ graph_data = UnboundGraph
    /\ static_resp = UnboundResponse /\ static_ok = Unbound
    /\ sparql_ok = UnboundData /\ sparql_data = UnboundData
    /\ conversion_ok = Unbound
    /\ ret = Unbound /\ log = <<>> /\ resp = UnboundResponse
    /\ uri = <<>> /\ ntype = Unbound /\ ngroup = -1

\* for binding in bindings: ... (lines 56-86)
Iterate ==
    /\ pc = "loop"
    /\ i <= Len(bindings)
    /\ LET st == LoopBody([nodes |-> nodes, links |-> links, raised |-> FALSE],
                          bindings[i])
       IN  /\ nodes' = st.nodes
           /\ links' = st.links
           /\ pc' = IF st.raised THEN "raised" ELSE "loop"
    /\ i' = i + 1
    /\ UNCHANGED <<bindings, graph_data, static_resp, static_ok, sparql_ok,
                   sparql_data, conversion_ok, ret, log, resp, uri, ntype, ngroup>>

\* return {'nodes': list(nodes.values()), 'links': links} (lines 88-91)
Return ==
    /\ pc = "loop"
    /\ i > Len(bindings)
    /\ graph_data' = [nodes |-> Values(nodes), links |-> links]
    /\ pc' = "returned"
    /\ UNCHANGED <<bindings, i, nodes, links, static_resp, static_ok, sparql_ok,
                   sparql_data, conversion_ok, ret, log, resp, uri, ntype, ngroup>>

NextConv == Iterate \/ Return

SpecConv == InitConv /\ [][NextConv]_vars

(***************************************************************************)
(* Reporter specification: main of test_visualization_fix.py               *)
(***************************************************************************)
InitMain ==
    /\ pc = "static"
    /\ static_resp = UnboundResponse
    /\ static_ok = Unbound
    /\ sparql_ok = UnboundData
    /\ sparql_data = UnboundData
    /\ bindings = <<>>
    /\ graph_data = UnboundGraph
    /\ conversion_ok = Unbound
    /\ ret = Unbound
    /\ log = <<>>
    /\ i = 0 /\ nodes = <<>> /\ links = <<>>
    /\ resp = UnboundResponse /\ uri = <<>> /\ ntype = Unbound /\ ngroup = -1

\* static_ok = test_static_files() (line 179)
TestStaticFiles ==
    /\ pc = "static"
    /\ \E r \in StaticResponses :
          /\ static_resp' = r
          /\ static_ok' = test_static_files(r)
    /\ log' = Append(log, "static")
    /\ pc' = "sparql"
    /\ UNCHANGED <<sparql_ok, sparql_data, bindings, graph_data, conversion_ok,
                   ret, i, nodes, links, resp, uri, ntype, ngroup>>

\* sparql_ok = test_sparql_api() (line 180)
TestSparqlApi ==
    /\ pc = "sparql"
    /\ \E r \in Responses : sparql_ok' = test_sparql_api(r)
    /\ log' = Append(log, "query")
    /\ pc' = "conversion"
    /\ UNCHANGED <<static_resp, static_ok, sparql_data, bindings, graph_data,
                   conversion_ok, ret, i, nodes, links, resp, uri, ntype, ngroup>>

\* test_graph_conversion() converting the result main already holds
TestGraphConversion_Reuse ==
    /\ pc = "conversion"
    /\ sparql_data' = sparql_ok
    /\ IF sparql_ok = None
       THEN /\ conversion_ok' = PyFalse
            /\ log' = log
            /\ pc' = "summary"
            /\ UNCHANGED <<bindings, graph_data>>
       ELSE LET g == convert_sparql_to_graph(sparql_ok.bindings)
            IN  /\ bindings' = sparql_ok.bindings
                /\ log' = Append(log, "convert")
                /\ IF g.raised
                   THEN pc' = "raised" /\ UNCHANGED <<graph_data, conversion_ok>>
                   ELSE /\ graph_data' = [nodes |-> g.nodes, links |-> g.links]
                        /\ conversion_ok' = PyTrue
                        /\ pc' = "summary"
    /\ UNCHANGED <<static_resp, static_ok, sparql_ok, ret, i, nodes, links,
                   resp, uri, ntype, ngroup>>

\* conversion_ok = test_graph_conversion() (line 181, lines 142-171), with
\* its locals sparql_data, bindings and graph_data; an exception raised by
\* convert_sparql_to_graph is not caught and leaves main
TestGraphConversion ==
    /\ pc = "conversion"
    /\ \E r \in Responses :
         /\ sparql_data' = test_sparql_api(r)
         /\ IF sparql_data' = None
            THEN /\ conversion_ok' = PyFalse
                 /\ log' = Append(log, "query")
                 /\ pc' = "summary"
                 /\ UNCHANGED <<bindings, graph_data>>
            ELSE LET g == convert_sparql_to_graph(sparql_data'.bindings)
                 IN  /\ bindings' = sparql_data'.bindings
                     /\ log' = log \o <<"query", "convert">>
                     /\ IF g.raised
                        THEN pc' = "raised" /\ UNCHANGED <<graph_data, conversion_ok>>
                        ELSE /\ graph_data' = [nodes |-> g.nodes, links |-> g.links]
                             /\ conversion_ok' = PyTrue
                             /\ pc' = "summary"
    /\ UNCHANGED <<static_resp, static_ok, sparql_ok, ret, i, nodes, links,
                   resp, uri, ntype, ngroup>>

\* the final summary and return all([static_ok, sparql_ok, conversion_ok])
\* (lines 183-195)
Summary ==
    /\ pc = "summary"
    /\ log' = Append(log, "summary")
    /\ ret' = IF static_ok = PyTrue /\ sparql_ok # None /\ conversion_ok = PyTrue
              THEN PyTrue ELSE PyFalse
    /\ pc' = "done"
    /\ UNCHANGED <<static_resp, static_ok, sparql_ok, sparql_data, bindings,
                   graph_data, conversion_ok, i, nodes, links, resp, uri, ntype,
                   ngroup>>

NextMain == TestStaticFiles \/ TestSparqlApi \/ TestGraphConversion \/ Summary

SpecMain == InitMain /\ [][NextMain]_vars

(***************************************************************************)
(* test_real_data of debug_sparql.py                                       *)
(***************************************************************************)
\* binding.get(f, {}).get('value', default).lower() / .startswith raise on a
\* value that is not a string; an absent value is the default ''
StrOf(f) == IF f.k = "str" THEN f.v ELSE <<>>

\* the first of a row's tests that is true or raises decides an `or` chain
RECURSIVE OrChain(_)
OrChain(tests) ==
    IF tests = <<>> THEN "false"
    ELSE IF Head(tests) = "false" THEN OrChain(Tail(tests))
    ELSE Head(tests)

\* the first of a row's tests that is false or raises decides an `and` chain
RECURSIVE AndChain(_)
AndChain(tests) ==
    IF tests = <<>> THEN "true"
    ELSE IF Head(tests) = "true" THEN AndChain(Tail(tests))
    ELSE Head(tests)

\* word in binding.get(f, {}).get('value', '').lower(), for the field f of
\* the row b
InLower(b, f, word) ==
    IF ~b.dict \/ f.k \in {"nondict", "int"} THEN "raise"
    ELSE IF Contains(Lower(StrOf(f)), word) THEN "true" ELSE "false"

\* not binding.get(f, {}).get('value', '').startswith(prefix)
NotStartsWith(b, f, prefix) ==
    IF ~b.dict \/ f.k \in {"nondict", "int"} THEN "raise"
    ELSE IF StartsWith(StrOf(f), prefix) THEN "false" ELSE "true"

\* the generator element of has_epcis (lines 38-43)
EpcisRow(b) ==
    OrChain(<<InLower(b, b.s, S_epcis), InLower(b, b.p, S_epcis),
              InLower(b, b.o, S_epcis), InLower(b, b.s, S_cbv),
              InLower(b, b.p, S_cbv), InLower(b, b.o, S_cbv)>>)

\* the generator element of has_real_uris (lines 48-50)
RealRow(b) ==
    AndChain(<<NotStartsWith(b, b.s, S_exresource), NotStartsWith(b, b.p, S_ex),
               NotStartsWith(b, b.o, S_value)>>)

\* any(...) over the rows' results, stopping at the first true or raising one
AnyOf(results) == OrChain(results)

\* the sample print loop (lines 30-34) raises on a row or field, among the
\* first five, that is not an object
PrintRaises(bs) ==
    \E k \in 1..Len(bs) :
        /\ k <= 5
        /\ \/ ~bs[k].dict
           \/ bs[k].s.k = "nondict" \/ bs[k].p.k = "nondict" \/ bs[k].o.k = "nondict"

\* lines 26-65 on the bindings of a parsed body
Analyse(bs) ==
    LET has_epcis == AnyOf([k \in 1..Len(bs) |-> EpcisRow(bs[k])])
        has_real_uris == AnyOf([k \in 1..Len(bs) |-> RealRow(bs[k])])
    IN  IF PrintRaises(bs) \/ has_epcis = "raise" \/ has_real_uris = "raise"
        THEN PyFalse
        ELSE IF has_epcis = "true" /\ has_real_uris = "true" THEN PyTrue ELSE PyFalse

\* test_real_data(): the returned boolean (lines 17-69); the status of the
\* response is never read
test_real_data(r) ==
    IF r.kind = "exc" THEN PyFalse
    ELSE IF r.body.kind = "notjson" THEN PyFalse
    ELSE Analyse(r.body.bindings)

InitDebug ==
    /\ pc = "start"
    /\ resp = UnboundResponse
    /\ ret = Unbound
    /\ log = <<>>
    /\ static_resp = UnboundResponse /\ static_ok = Unbound
    /\ sparql_ok = UnboundData /\ sparql_data = UnboundData
    /\ conversion_ok = Unbound /\ graph_data = UnboundGraph
    /\ bindings = <<>> /\ i = 0 /\ nodes = <<>> /\ links = <<>>
    /\ uri = <<>> /\ ntype = Unbound /\ ngroup = -1

\* test_real_data(): one POST, and the returned boolean
TestRealData ==
    /\ pc = "start"
    /\ \E r \in Responses :
          /\ resp' = r
          /\ ret' = test_real_data(r)
    /\ log' = Append(log, "post")
    /\ pc' = "done"
    /\ UNCHANGED <<static_resp, static_ok, sparql_ok, sparql_data, conversion_ok,
                   graph_data, bindings, i, nodes, links, uri, ntype, ngroup>>

NextDebug == TestRealData

SpecDebug == InitDebug /\ [][NextDebug]_vars

(***************************************************************************)
(* Properties of the converter (SpecConv)                                  *)
(***************************************************************************)
\* subject, predicate and object are all present and non-empty strings
Qualifying(b) ==
    /\ b.s.k = "str" /\ Len(b.s.v) > 0
    /\ b.p.k = "str" /\ Len(b.p.v) > 0
    /\ b.o.k = "str" /\ Len(b.o.v) > 0

\* the bindings the loop has been through
Processed == IF pc = "returned" THEN Len(bindings) ELSE i - 1

QualifyingUpTo(n) == {k \in 1..n : Qualifying(bindings[k])}

\* the position in bindings of the j-th qualifying binding
NthQualifying(j) ==
    CHOOSE k \in 1..Len(bindings) :
        Qualifying(bindings[k]) /\ Cardinality(QualifyingUpTo(k)) = j

NodeIds == {nodes[k].val.id : k \in 1..Len(nodes)}

\* C1: the number of links equals the number of bindings with s, p and o all
\* present and non-empty; one link per such binding, in binding order,
\* duplicates included, and the returned links are those links.
C1_LinkPerQualifyingBinding ==
    /\ Len(links) = Cardinality(QualifyingUpTo(Processed))
    /\ \A j \in 1..Len(links) :
          LET b == bindings[NthQualifying(j)] IN
          /\ links[j].source = b.s.v
          /\ links[j].target = b.o.v
          /\ links[j].label = get_edge_label(b.p.v)
    /\ pc = "returned" =>
          /\ graph_data.links = links
          /\ Len(graph_data.links) = Cardinality(QualifyingUpTo(Len(bindings)))

\* C1 witness: the same qualifying binding twice gave two links
C1_Witness ==
    /\ pc = "returned"
    /\ Len(bindings) = 2
    /\ Qualifying(bindings[1])
    /\ bindings[2] = bindings[1]
    /\ Len(graph_data.links) = 2

\* C2: no two nodes share an id, after every processed binding and in the
\* returned node list.
C2_UniqueNodeIds ==
    /\ \A j, k \in 1..Len(nodes) : j # k => nodes[j].val.id # nodes[k].val.id
    /\ pc = "returned" =>
          \A j, k \in 1..Len(graph_data.nodes) : j # k => graph_data.nodes[j].id # graph_data.nodes[k].id

\* C2 witness: a URI was a subject in one binding and an object in another,
\* and a second URI occurred in both bindings
C2_Witness ==
    /\ pc = "returned"
    /\ Len(bindings) = 2
    /\ Qualifying(bindings[1]) /\ Qualifying(bindings[2])
    /\ bindings[1].s.v = bindings[2].o.v
    /\ bindings[1].o.v = bindings[2].s.v
    /\ bindings[1].s.v # bindings[1].o.v
    /\ Len(graph_data.nodes) = 2

\* the iteration at hand is on a binding lacking s, p or o
DropStep == pc = "loop" /\ i <= Len(bindings) /\ ~Qualifying(bindings[i])

\* C3: a binding lacking s, p or o adds no node and no link; the node ids are
\* exactly the subjects and objects of the bindings that have all three, and
\* every link's source and target is the id of a node.
C3_DroppedBindingAddsNothing ==
    /\ [][DropStep => (nodes' = nodes /\ links' = links)]_vars
    /\ [](/\ NodeIds = {bindings[k].s.v : k \in QualifyingUpTo(Processed)}
                         \cup {bindings[k].o.v : k \in QualifyingUpTo(Processed)}
          /\ \A j \in 1..Len(links) :
                links[j].source \in NodeIds /\ links[j].target \in NodeIds
          /\ pc = "returned" =>
                {graph_data.nodes[k].id : k \in 1..Len(graph_data.nodes)} = NodeIds)

\* C3 witness: a binding with a subject and an object but an empty predicate
\* was dropped, its subject being in no node
C3_Witness ==
    /\ pc = "returned"
    /\ Len(bindings) = 2
    /\ Qualifying(bindings[1])
    /\ bindings[2].p = FStr(<<>>)
    /\ bindings[2].s.k = "str" /\ Len(bindings[2].s.v) > 0
    /\ bindings[2].o.k = "str" /\ Len(bindings[2].o.v) > 0
    /\ bindings[2].s.v \notin NodeIds
    /\ Len(graph_data.links) = 1

C4Binding == Row(FStr(S_ex_resource1), FStr(S_ex_hasType), FStr(S_ex_Product))

\* C4 as stated: the single binding (ex:resource1, ex:hasType, ex:Product)
\* yields the nodes ex:resource1 and ex:Product and one link of category
\* `has` labelled ex:hasType.
C4_Original ==
    (pc = "returned" /\ bindings = <<C4Binding>>) =>
        /\ Len(graph_data.nodes) = 2
        /\ graph_data.nodes[1].id = S_ex_resource1
        /\ graph_data.nodes[2].id = S_ex_Product
        /\ Len(graph_data.links) = 1
        /\ graph_data.links[1].type = "has"
        /\ graph_data.links[1].label = S_ex_hasType

\* C4 amended: the same, with the link's category being `type`, because the
\* lower-cased predicate contains "type", which is tested before "has".
C4_Amended ==
    (pc = "returned" /\ bindings = <<C4Binding>>) =>
        /\ Len(graph_data.nodes) = 2
        /\ graph_data.nodes[1].id = S_ex_resource1
        /\ graph_data.nodes[2].id = S_ex_Product
        /\ Len(graph_data.links) = 1
        /\ graph_data.links[1].type = "type"
        /\ graph_data.links[1].label = S_ex_hasType

\* C4 witness: that binding list has been converted
C4_Witness == pc = "returned" /\ bindings = <<C4Binding>> /\ Len(graph_data.links) = 1

\* C10: processing a binding leaves every existing node entry as it is: same
\* id, name, type and group under the same URI.
C10_NodesImmutable ==
    [][\A k \in 1..Len(nodes) :
          \E m \in 1..Len(nodes') :
              /\ nodes'[m].key = nodes[k].key
              /\ nodes'[m].val = nodes[k].val]_vars

\* C10 witness: the subject of the first binding came back as the object of
\* the second
C10_Witness ==
    /\ pc = "returned"
    /\ Len(bindings) = 2
    /\ Qualifying(bindings[1]) /\ Qualifying(bindings[2])
    /\ bindings[2].o.v = bindings[1].s.v
    /\ bindings[2].s.v # bindings[1].s.v
    /\ graph_data.nodes[1] = MakeNode(bindings[1].s.v)

(***************************************************************************)
(* Properties of the classifiers (SpecFn)                                  *)
(***************************************************************************)
\* the category the priority rule gives a lower-cased URI
RuleCategory(l) ==
    CASE Contains(l, S_product) -> "product"
      [] ~Contains(l, S_product) /\ Contains(l, S_location) -> "location"
      [] ~Contains(l, S_product) /\ ~Contains(l, S_location)
           /\ Contains(l, S_event) -> "event"
      [] ~Contains(l, S_product) /\ ~Contains(l, S_location)
           /\ ~Contains(l, S_event) /\ Contains(l, S_business) -> "business"
      [] OTHER -> "resource"

\* C8: the category follows the priority product, location, event, business,
\* resource on the lower-cased URI, and the group matches the category;
\* http://example.org/epcis#EventType is an event of group 3.
C8_CategoryPriorityAndGroup ==
    pc = "classified" =>
        /\ ntype = RuleCategory(Lower(uri))
        /\ ngroup = (CASE ntype = "product" -> 1
                       [] ntype = "location" -> 2
                       [] ntype = "event" -> 3
                       [] ntype = "business" -> 4
                       [] ntype = "resource" -> 0)
        /\ uri = S_EventTypeUri => (ntype = "event" /\ ngroup = 3)
        /\ uri = S_base \o W_Event \o W_LOCATION => ntype = "location"
        /\ uri = S_base \o S_business \o W_Product => ntype = "product"

\* C8 witness: a URI with the keywords event and location, in that order of
\* appearance, was classified
C8_Witness ==
    /\ pc = "classified"
    /\ uri = S_base \o W_Event \o W_LOCATION
    /\ ntype = "location"
    /\ ngroup = 2

(***************************************************************************)
(* Properties of main (SpecMain)                                           *)
(***************************************************************************)
StaticNon200 == static_resp.kind = "http" /\ static_resp.status # 200

Count(seq, x) == Cardinality({k \in 1..Len(seq) : seq[k] = x})

\* C5: after a non-200 static response the static result is False and the
\* run is not aborted: it goes on to the SPARQL and the conversion checks,
\* prints the summary and returns False.
C5_Original ==
    StaticNon200 =>
        /\ static_ok = PyFalse
        /\ pc # "raised"
        /\ pc = "done" =>
              /\ Count(log, "query") >= 1
              /\ log[Len(log)] = "summary"
              /\ ret = PyFalse

\* C6: no exception leaves main, the summary is reached, and main returns
\* True only when the three checks succeeded.
C6_Original ==
    /\ pc # "raised"
    /\ pc = "done" =>
          /\ log[Len(log)] = "summary"
          /\ ret = PyTrue =>
                (static_ok = PyTrue /\ sparql_ok # None /\ conversion_ok = PyTrue)

\* C9 as stated: the query client and the static check are each invoked
\* once, the converter is fed the bindings of the reported SPARQL result, and
\* the conversion succeeds only if the SPARQL check succeeded.
C9_Original ==
    pc \in {"summary", "done", "raised"} =>
        /\ Count(log, "static") = 1
        /\ Count(log, "query") = 1
        /\ Count(log, "convert") = 1 =>
              (sparql_ok # None /\ bindings = sparql_ok.bindings)
        /\ conversion_ok = PyTrue => sparql_ok # None

\* the calls of a run, in order
CallOrder(converted, summarised) ==
    <<"static", "query", "query">>
        \o (IF converted THEN <<"convert">> ELSE <<>>)
        \o (IF summarised THEN <<"summary">> ELSE <<>>)

\* C9 amended: the static check is invoked once, then the query client
\* twice, by main and again inside test_graph_conversion; the converter is
\* fed the bindings of the second invocation, before the summary; the
\* conversion succeeds only if that second invocation succeeded.
C9_Amended ==
    pc \in {"summary", "done", "raised"} =>
        /\ log = CallOrder(sparql_data # None, pc = "done")
        /\ sparql_data # None => bindings = sparql_data.bindings
        /\ conversion_ok = PyTrue => sparql_data # None
        /\ sparql_data = None => conversion_ok = PyFalse

\* C9 witness: the conversion check succeeded in a run whose reported SPARQL
\* check failed
C9_Witness ==
    /\ pc = "done"
    /\ sparql_ok = None
    /\ conversion_ok = PyTrue
    /\ Len(bindings) > 0

(***************************************************************************)
(* Properties of test_real_data (SpecDebug)                                *)
(***************************************************************************)
\* some row's s, p or o contains "epcis" or "cbv", whatever the letter case
HasEpcisTerm(bs) ==
    \E k \in 1..Len(bs) : \E f \in {bs[k].s, bs[k].p, bs[k].o} :
        f.k = "str" /\ (Contains(Lower(f.v), S_epcis) \/ Contains(Lower(f.v), S_cbv))

\* some row is not a sample row: s does not start with ex:resource, p not
\* with ex: and o not with value
HasRealRow(bs) ==
    \E k \in 1..Len(bs) :
        /\ ~(bs[k].s.k = "str" /\ StartsWith(bs[k].s.v, S_exresource))
        /\ ~(bs[k].p.k = "str" /\ StartsWith(bs[k].p.v, S_ex))
        /\ ~(bs[k].o.k = "str" /\ StartsWith(bs[k].o.v, S_value))

\* C7: test_real_data returns False when the POST raises, when the body is
\* not JSON and when the status is not 200, whatever the body; it returns
\* True only for a successful request whose bindings carry an EPCIS/CBV term
\* and a real row; the request is issued once.
C7_Original ==
    pc = "done" =>
        /\ log = <<"post">>
        /\ (resp.kind = "exc" \/ resp.body.kind = "notjson") => ret = PyFalse
        /\ (resp.kind = "http" /\ resp.status # 200) => ret = PyFalse
        /\ ret = PyTrue =>
              /\ resp.kind = "http" /\ resp.status = 200
              /\ resp.body.kind = "json"
              /\ HasEpcisTerm(resp.body.bindings)
              /\ HasRealRow(resp.body.bindings)

====
